---------------------------- MODULE Spec2Model ----------------------------
(***************************************************************************)
(* Model of the bank-churn service: the FastAPI application of             *)
(* src/app/models.py (model loading, /predict, /predict/batch,             *)
(* /drift/check, log_drift_to_insights) and the drift evaluator of         *)
(* src/app/drift_detect.py.                                                *)
(*                                                                         *)
(* Units.  Floats are fixed-point integers:                                *)
(*   probabilities        in 1/100000    (0.5    is 50000)                 *)
(*   p-values, thresholds in 1/1000      (0.05   is 50)                    *)
(*   KS statistics        in 1/1000                                        *)
(*   drift percentages    in 1/100       (33.33  is 3333)                  *)
(* NaN is the value NaN below; every ordered comparison with it is FALSE.  *)
(***************************************************************************)
EXTENDS Integers, Sequences, FiniteSets, TLC

VARIABLES pc, model, loads, request, results, emitted, response, calls

vars == <<pc, model, loads, request, results, emitted, response, calls>>

-----------------------------------------------------------------------------
(* Bounds *)

\* longest features_list given to predict_batch
MaxBatch == 2
\* number of distinct column names the two CSV files draw from
NumCols == 4

-----------------------------------------------------------------------------
(* Values *)

NaN == -1
Raise == -2
NoModel == [kind |-> "None"]
NoRequest == [kind |-> "none"]
NoResults == [kind |-> "none"]
NoResponse == [kind |-> "none"]

\* round-half-even of num/den, the rule of Python's round() on a value that
\* is exactly a tie; off a tie it is the nearest integer
RoundHalfEven(num, den) ==
    LET q == num \div den
        r == num % den
    IN  IF 2 * r < den THEN q
        ELSE IF 2 * r > den THEN q + 1
        ELSE IF q % 2 = 0 THEN q ELSE q + 1

\* round(proba, 4), on probabilities in 1/100000
Round4(proba) == 10 * RoundHalfEven(proba, 10)

-----------------------------------------------------------------------------
(* Scoring: inputs *)

\* CustomerFeatures records a client may post (no range validation is done by
\* the handlers; the values only flow into the model)
FeatureVectors ==
    { [CreditScore |-> 650, Age |-> 35, Tenure |-> 5, Balance |-> 50000,
       NumOfProducts |-> 2, HasCrCard |-> 1, IsActiveMember |-> 1,
       EstimatedSalary |-> 75000, Geography_Germany |-> 0, Geography_Spain |-> 1],
      [CreditScore |-> 420, Age |-> 61, Tenure |-> 0, Balance |-> 0,
       NumOfProducts |-> 1, HasCrCard |-> 0, IsActiveMember |-> 0,
       EstimatedSalary |-> 12000, Geography_Germany |-> 1, Geography_Spain |-> 0] }

\* np.array([[...]]) : the ten covariates in the model's fixed order
InputData(features) ==
    << features.CreditScore, features.Age, features.Tenure, features.Balance,
       features.NumOfProducts, features.HasCrCard, features.IsActiveMember,
       features.EstimatedSalary, features.Geography_Germany,
       features.Geography_Spain >>

InputRows == { InputData(f) : f \in FeatureVectors }

\* class-1 probabilities a model may answer; none is a rounding tie at 4
\* decimals; Raise is predict_proba throwing
Probas == {0, 29990, 29996, 30000, 50000, 50004, 69990, 69996, 70000, 100000}

\* the artifacts joblib.load may return: any map from input row to outcome
Models == [InputRows -> Probas \cup {Raise}]

-----------------------------------------------------------------------------
(* Scoring: the handlers' computations *)

\* the decision taken at 0.5 included
Prediction_ge(proba) == IF proba >= 50000 THEN 1 ELSE 0

\* int(proba > 0.5)
Prediction(proba) == IF proba > 50000 THEN 1 ELSE 0

\* "Low" if proba < 0.3 else "Medium" if proba < 0.7 else "High"
RiskBand(proba) ==
    IF proba < 30000 THEN "Low" ELSE IF proba < 70000 THEN "Medium" ELSE "High"

\* the body returned by predict for a probability
PredictBody(proba) ==
    [churn_probability |-> Round4(proba),
     prediction |-> Prediction(proba),
     risk_level |-> RiskBand(proba)]

\* the dict appended by predict_batch for a probability
BatchItem(proba) ==
    [churn_probability |-> Round4(proba), prediction |-> Prediction(proba)]

\* the loop of predict_batch over features_list[i..]: the predictions built,
\* the number of predict_proba calls made, and whether one of them raised
RECURSIVE BatchLoop(_, _, _, _)
BatchLoop(m, features_list, i, acc) ==
    IF i > Len(features_list)
    THEN [raised |-> FALSE, predictions |-> acc, calls |-> Len(features_list)]
    ELSE LET proba == m[InputData(features_list[i])]
         IN  IF proba = Raise
             THEN [raised |-> TRUE, predictions |-> acc, calls |-> i]
             ELSE BatchLoop(m, features_list, i + 1, Append(acc, BatchItem(proba)))

-----------------------------------------------------------------------------
(* Initial state: module import, before the startup event *)

Init ==
    /\ pc = "startup"
    /\ model = NoModel
    /\ loads = 0
    /\ request = NoRequest
    /\ results = NoResults
    /\ emitted = << >>
    /\ response = NoResponse
    /\ calls = 0

-----------------------------------------------------------------------------
(* Startup *)

\* load_model, joblib.load succeeds
LoadModelOk ==
    /\ pc = "startup"
    /\ \E m \in Models : model' = [kind |-> "loaded", predict_proba |-> m]
    /\ loads' = loads + 1
    /\ emitted' = << [event_type |-> "model_load", status |-> "success"] >>
    /\ pc' = "serving"
    /\ UNCHANGED <<request, results, response, calls>>

\* load_model, joblib.load raises
LoadModelFailed ==
    /\ pc = "startup"
    /\ model' = NoModel
    /\ loads' = loads + 1
    /\ emitted' = << [event_type |-> "model_load", status |-> "failed"] >>
    /\ pc' = "serving"
    /\ UNCHANGED <<request, results, response, calls>>

-----------------------------------------------------------------------------
(* Scoring endpoints.  A handler runs when the worker is idle. *)

Idle == pc = "serving" /\ response = NoResponse

\* predict with the model check inside the try block: a missing model
\* surfaces as the generic failure
Predict_checkInTry ==
    /\ Idle
    /\ \E features \in FeatureVectors :
         /\ request' = [kind |-> "predict", features |-> features]
         /\ IF model = NoModel
            THEN /\ response' = [kind |-> "error", status |-> 500,
                                 detail |-> "Model unavailable"]
                 /\ emitted' = << [event_type |-> "prediction_error"] >>
                 /\ calls' = 0
            ELSE LET proba == model.predict_proba[InputData(features)]
                 IN  IF proba = Raise
                     THEN /\ response' = [kind |-> "error", status |-> 500,
                                          detail |-> "predict_proba"]
                          /\ emitted' = << [event_type |-> "prediction_error"] >>
                          /\ calls' = 1
                     ELSE /\ response' = [kind |-> "ok", status |-> 200,
                                          body |-> PredictBody(proba)]
                          /\ emitted' = << [event_type |-> "prediction",
                                            probability |-> proba,
                                            prediction |-> Prediction(proba),
                                            risk_level |-> RiskBand(proba)] >>
                          /\ calls' = 1
    /\ UNCHANGED <<pc, model, loads, results>>

\* predict: 503 before the try block when no model is loaded, else one
\* predict_proba call, 500 if it raises
Predict ==
    /\ Idle
    /\ \E features \in FeatureVectors :
         /\ request' = [kind |-> "predict", features |-> features]
         /\ IF model = NoModel
            THEN /\ response' = [kind |-> "error", status |-> 503,
                                 detail |-> "Model unavailable"]
                 /\ emitted' = << >>
                 /\ calls' = 0
            ELSE LET proba == model.predict_proba[InputData(features)]
                 IN  IF proba = Raise
                     THEN /\ response' = [kind |-> "error", status |-> 500,
                                          detail |-> "predict_proba"]
                          /\ emitted' = << [event_type |-> "prediction_error"] >>
                          /\ calls' = 1
                     ELSE /\ response' = [kind |-> "ok", status |-> 200,
                                          body |-> PredictBody(proba)]
                          /\ emitted' = << [event_type |-> "prediction",
                                            probability |-> proba,
                                            prediction |-> Prediction(proba),
                                            risk_level |-> RiskBand(proba)] >>
                          /\ calls' = 1
    /\ UNCHANGED <<pc, model, loads, results>>

BatchInputs == UNION { [1..n -> FeatureVectors] : n \in 0..MaxBatch }

PredictBatch ==
    /\ Idle
    /\ \E features_list \in BatchInputs :
         /\ request' = [kind |-> "predict_batch", features_list |-> features_list]
         /\ IF model = NoModel
            THEN /\ response' = [kind |-> "error", status |-> 503,
                                 detail |-> "Model unavailable"]
                 /\ emitted' = << >>
                 /\ calls' = 0
            ELSE LET run == BatchLoop(model.predict_proba, features_list, 1, << >>)
                 IN  /\ calls' = run.calls
                     /\ IF run.raised
                        THEN /\ response' = [kind |-> "error", status |-> 500,
                                             detail |-> "predict_proba"]
                             /\ emitted' = << [event_type |-> "batch_prediction_error"] >>
                        ELSE /\ response' = [kind |-> "ok", status |-> 200,
                                             body |-> [predictions |-> run.predictions,
                                                       count |-> Len(run.predictions)]]
                             /\ emitted' = << [event_type |-> "batch_prediction",
                                               count |-> Len(run.predictions)] >>
    /\ UNCHANGED <<pc, model, loads, results>>

-----------------------------------------------------------------------------
(* Drift: inputs *)

\* column names of the CSV files; a table lists its columns in ascending order
ColumnNames == 1..NumCols

Absent == [kind |-> "absent"]
\* a file of zero bytes: pd.read_csv raises EmptyDataError
ZeroBytes == [kind |-> "zero_bytes"]

\* what pd.read_csv returns: the columns with their dtypes, and whether there
\* is any data row; a header-only file has no rows and every column is object
Tables ==
    UNION { { [kind |-> "table", rows |-> TRUE, dtype |-> d] :
                d \in [S -> {"numeric", "object"}] } \cup
            { [kind |-> "table", rows |-> FALSE, dtype |-> [c \in S |-> "object"]] }
          : S \in SUBSET ColumnNames }

Files == {Absent, ZeroBytes} \cup Tables

Thresholds == {50, 100}

\* results of scipy.stats.ks_2samp on two non-empty numeric samples
KSOutcomes ==
    { [statistic |-> 0, pvalue |-> 1000],
      [statistic |-> 500, pvalue |-> 50],
      [statistic |-> 900, pvalue |-> 10] }
\* on an empty sample ks_2samp raises ValueError or answers NaN, by version
KSNaN == [statistic |-> NaN, pvalue |-> NaN]
KSRaise == [statistic |-> Raise, pvalue |-> Raise]

columns(df) == DOMAIN df.dtype

\* pd.api.types.is_numeric_dtype(df[feature])
is_numeric_dtype(df, feature) == df.dtype[feature] = "numeric"

\* the results ks_2samp(ref_df[feature].dropna(), prod_df[feature].dropna())
\* can have, the reference column being numeric
ks_2samp(ref_df, prod_df, feature) ==
    IF ~prod_df.rows THEN {KSRaise, KSNaN}
    ELSE IF prod_df.dtype[feature] = "object" THEN {KSRaise}
    ELSE KSOutcomes

\* the common columns, the non-numeric ones left out
Features_numeric(ref_df, prod_df) ==
    SelectSeq([i \in 1..NumCols |-> i],
              LAMBDA c : /\ c \in columns(ref_df) /\ c \in columns(prod_df)
                         /\ is_numeric_dtype(ref_df, c))

\* [c for c in ref_df.columns if c in prod_df.columns], in reference order
Features(ref_df, prod_df) ==
    SelectSeq([i \in 1..NumCols |-> i],
              LAMBDA c : c \in columns(ref_df) /\ c \in columns(prod_df))

\* the columns on which the loop of detect_drift calls ks_2samp
Tested(ref_df, prod_df) ==
    { c \in columns(ref_df) \cap columns(prod_df) : is_numeric_dtype(ref_df, c) }

\* the library's answers for one call of detect_drift
KSChoices(reference, production) ==
    IF reference.kind = "table" /\ production.kind = "table"
    THEN { ks \in [Tested(reference, production) -> KSOutcomes \cup {KSNaN, KSRaise}] :
             \A c \in DOMAIN ks : ks[c] \in ks_2samp(reference, production, c) }
    ELSE { << >> }

-----------------------------------------------------------------------------
(* Drift: detect_drift *)

\* p_value < threshold on floats: FALSE when p_value is NaN
Less(x, y) == x # NaN /\ y # NaN /\ x < y

\* the comparison taken non-strictly
DriftDetected_le(p_value, threshold) ==
    p_value # NaN /\ threshold # NaN /\ p_value <= threshold

DriftDetected(p_value, threshold) == Less(p_value, threshold)

NumericVerdict(ks, threshold) ==
    [drift_detected |-> DriftDetected(ks.pvalue, threshold),
     p_value |-> ks.pvalue,
     statistic |-> ks.statistic,
     type |-> "kolmogorov-smirnov"]

CategoricalVerdict == [drift_detected |-> FALSE, type |-> "categorical_skipped"]

\* the for loop of detect_drift over features[i..]; acc is the dict results
RECURSIVE DriftLoop(_, _, _, _, _, _)
DriftLoop(ref_df, features, threshold, ks, i, acc) ==
    IF i > Len(features) THEN [raised |-> "none", report |-> acc]
    ELSE LET feature == features[i]
         IN  IF is_numeric_dtype(ref_df, feature)
             THEN IF ks[feature] = KSRaise
                  THEN [raised |-> "ks_2samp", report |-> acc]
                  ELSE DriftLoop(ref_df, features, threshold, ks, i + 1,
                                 (feature :> NumericVerdict(ks[feature], threshold)) @@ acc)
             ELSE DriftLoop(ref_df, features, threshold, ks, i + 1,
                            (feature :> CategoricalVerdict) @@ acc)

\* detect_drift(reference_file, production_file, threshold): the exception it
\* raises, or "none" and the dict it returns
detect_drift(reference, production, threshold, ks) ==
    IF reference = Absent THEN [raised |-> "FileNotFoundError", report |-> << >>]
    ELSE IF production = Absent THEN [raised |-> "none", report |-> << >>]
    ELSE IF reference = ZeroBytes \/ production = ZeroBytes
         THEN [raised |-> "EmptyDataError", report |-> << >>]
    ELSE DriftLoop(reference, Features(reference, production), threshold, ks, 1, << >>)

-----------------------------------------------------------------------------
(* Drift: log_drift_to_insights and check_drift *)

\* details.get(key, default)
Get(details, key, default) ==
    IF key \in DOMAIN details THEN details[key] ELSE default

\* sum(1 for r in drift_results.values() if r.get("drift_detected"))
Drifted(drift_results) ==
    Cardinality({ f \in DOMAIN drift_results :
                    Get(drift_results[f], "drift_detected", FALSE) })

\* the percentage truncated to 2 decimals instead of rounded
Percentage_trunc(drifted, total) ==
    IF total # 0 THEN (drifted * 10000) \div total ELSE 0

\* round((drifted / total) * 100, 2) if total else 0, in hundredths
Percentage(drifted, total) ==
    IF total # 0 THEN RoundHalfEven(drifted * 10000, total) ELSE 0

\* the bands with their boundaries in the lower band
Risk_le(percentage) ==
    IF percentage <= 2000 THEN "LOW" ELSE IF percentage <= 5000 THEN "MEDIUM" ELSE "HIGH"

\* "LOW" if percentage < 20 else "MEDIUM" if percentage < 50 else "HIGH"
Risk(percentage) ==
    IF percentage < 2000 THEN "LOW" ELSE IF percentage < 5000 THEN "MEDIUM" ELSE "HIGH"

SummaryEvent(drift_results) ==
    LET total == Cardinality(DOMAIN drift_results)
        percentage == Percentage(Drifted(drift_results), total)
    IN  [event_type |-> "drift_detection",
         drift_percentage |-> percentage,
         risk_level |-> Risk(percentage)]

FeatureDriftEvent(feature, details) ==
    [event_type |-> "feature_drift",
     feature_name |-> feature,
     p_value |-> Get(details, "p_value", 0),
     statistic |-> Get(details, "statistic", 0),
     type |-> Get(details, "type", "unknown")]

\* the dict's items in insertion order, which is ascending column order
Items(drift_results) ==
    SelectSeq([i \in 1..NumCols |-> i], LAMBDA c : c \in DOMAIN drift_results)

\* the second loop of log_drift_to_insights over items[i..]
RECURSIVE FeatureEvents(_, _, _)
FeatureEvents(drift_results, items, i) ==
    IF i > Len(items) THEN << >>
    ELSE LET details == drift_results[items[i]]
             rest == FeatureEvents(drift_results, items, i + 1)
         IN  IF Get(details, "drift_detected", FALSE)
             THEN << FeatureDriftEvent(items[i], details) >> \o rest
             ELSE rest

\* a feature_drift event for every feature, drifted or not
log_drift_to_insights_all(drift_results) ==
    LET items == Items(drift_results)
    IN  << SummaryEvent(drift_results) >> \o
        [i \in 1..Len(items) |-> FeatureDriftEvent(items[i], drift_results[items[i]])]

\* the events log_drift_to_insights hands to the logger, in order
log_drift_to_insights(drift_results) ==
    << SummaryEvent(drift_results) >> \o
    FeatureEvents(drift_results, Items(drift_results), 1)

\* the body check_drift returns for a report
CheckDriftBody(report) ==
    [status |-> "success",
     features_analyzed |-> Cardinality(DOMAIN report),
     features_drifted |->
         Cardinality({ f \in DOMAIN report : report[f].drift_detected })]

CheckDrift ==
    /\ Idle
    /\ \E reference \in Files, production \in Files, threshold \in Thresholds :
         \E ks \in KSChoices(reference, production) :
           LET run == detect_drift(reference, production, threshold, ks)
           IN  /\ request' = [kind |-> "check_drift", reference |-> reference,
                              production |-> production, threshold |-> threshold]
               /\ IF run.raised # "none"
                  THEN /\ results' = [kind |-> "raised", exception |-> run.raised]
                       /\ emitted' = << [event_type |-> "drift_error",
                                         traceback |-> run.raised] >>
                       /\ response' = [kind |-> "error", status |-> 500,
                                       detail |-> "Drift check failed"]
                  ELSE /\ results' = [kind |-> "report", report |-> run.report]
                       /\ emitted' = log_drift_to_insights(run.report)
                       /\ response' = [kind |-> "ok", status |-> 200,
                                       body |-> CheckDriftBody(run.report)]
    /\ UNCHANGED <<pc, model, loads, calls>>

\* the response leaves the worker, which is idle again
Respond ==
    /\ pc = "serving"
    /\ response # NoResponse
    /\ request' = NoRequest
    /\ results' = NoResults
    /\ emitted' = << >>
    /\ response' = NoResponse
    /\ calls' = 0
    /\ UNCHANGED <<pc, model, loads>>

Next == LoadModelOk \/ LoadModelFailed \/ Predict \/ PredictBatch \/ Respond

Spec == Init /\ [][Next]_vars

\* the drift service, in a process whose model file could not be loaded
DriftNext == LoadModelFailed \/ CheckDrift \/ Respond

DriftSpec == Init /\ [][DriftNext]_vars

-----------------------------------------------------------------------------
(* Properties of the drift service, checked under DriftSpec *)

Reported == request.kind = "check_drift" /\ results.kind = "report"

BothTables ==
    /\ request.kind = "check_drift"
    /\ request.reference.kind = "table"
    /\ request.production.kind = "table"

\* C1: in a report returned by detect_drift, a numeric column's verdict has
\* drift_detected exactly when its p_value is strictly below the threshold
\* (equal gives no drift), and a non-numeric column's verdict never has it
C1_DriftIffBelowThreshold ==
    Reported =>
        \A f \in DOMAIN results.report :
            LET v == results.report[f]
            IN  IF request.reference.dtype[f] = "numeric"
                THEN /\ "p_value" \in DOMAIN v
                     /\ v.drift_detected = (v.p_value # NaN /\ v.p_value < request.threshold)
                ELSE /\ v.drift_detected = FALSE
                     /\ "p_value" \notin DOMAIN v

\* a report with a drifted column, a column whose p-value equals the
\* threshold and did not drift, and a non-numeric column
C1_Witness ==
    /\ Reported
    /\ \E f, g, h \in DOMAIN results.report :
         /\ request.reference.dtype[f] = "numeric"
         /\ results.report[f].p_value = request.threshold
         /\ ~results.report[f].drift_detected
         /\ request.reference.dtype[g] = "numeric"
         /\ results.report[g].drift_detected
         /\ request.reference.dtype[h] = "object"
         /\ request.production.dtype[h] = "numeric"

\* C2: the risk level of the summary event is LOW below 20, MEDIUM from 20
\* and below 50, HIGH from 50, on the percentage rounded to 2 decimals; the
\* boundaries 19.99, 20.00, 49.99, 50.00 fall as LOW, MEDIUM, MEDIUM, HIGH
C2_RiskBands ==
    /\ Reported =>
         LET e == emitted[1]
         IN  /\ e.drift_percentage < 2000 => e.risk_level = "LOW"
             /\ e.drift_percentage >= 2000 /\ e.drift_percentage < 5000
                  => e.risk_level = "MEDIUM"
             /\ e.drift_percentage >= 5000 => e.risk_level = "HIGH"
    /\ Risk(1999) = "LOW"
    /\ Risk(2000) = "MEDIUM"
    /\ Risk(4999) = "MEDIUM"
    /\ Risk(5000) = "HIGH"

\* a summary at exactly 50.00 percent, which is HIGH
C2_Witness ==
    /\ Reported
    /\ emitted[1].drift_percentage = 5000
    /\ emitted[1].risk_level = "HIGH"

CountsAgree ==
    LET report == results.report
        analyzed == response.body.features_analyzed
        drifted == response.body.features_drifted
    IN  /\ analyzed = Cardinality(DOMAIN report)
        /\ drifted = Cardinality({ f \in DOMAIN report : report[f].drift_detected })
        /\ 0 <= drifted /\ drifted <= analyzed
        /\ Len(emitted) = 1 + drifted

\* C3 as stated: the drift percentage equals 100 * drifted / analyzed exactly
C3_ExactPercentage ==
    Reported =>
        LET analyzed == response.body.features_analyzed
            drifted == response.body.features_drifted
            percentage == emitted[1].drift_percentage
        IN  /\ CountsAgree
            /\ analyzed = 0 => percentage = 0
            /\ analyzed # 0 => percentage * analyzed = 10000 * drifted

\* C3: features_analyzed is the size of the report, features_drifted the
\* number of drifted verdicts, between 0 and features_analyzed, and the
\* drift percentage is 100 * drifted / analyzed rounded to 2 decimals (within
\* half a hundredth of the quotient), or 0 for an empty report
C3_RoundedPercentage ==
    Reported =>
        LET analyzed == response.body.features_analyzed
            drifted == response.body.features_drifted
            percentage == emitted[1].drift_percentage
            err == percentage * analyzed - 10000 * drifted
        IN  /\ CountsAgree
            /\ analyzed = 0 => percentage = 0
            /\ analyzed # 0 => 2 * err <= analyzed /\ -2 * err <= analyzed

\* two of three features drifted: 66.67 percent
C3_Witness ==
    /\ Reported
    /\ response.body.features_analyzed = 3
    /\ response.body.features_drifted = 2
    /\ emitted[1].drift_percentage = 6667

\* C4: for two tables, the keys of the report are exactly the columns the
\* two have in common, and columns of one side only cause no error: when no
\* common column is tested, detect_drift returns
C4_KeysAreCommonColumns ==
    BothTables =>
        LET common == columns(request.reference) \cap columns(request.production)
        IN  /\ results.kind = "report" => DOMAIN results.report = common
            /\ (\A c \in common : request.reference.dtype[c] = "object")
                 => results.kind = "report"

\* a report on tables that each have a column the other lacks
C4_Witness ==
    /\ BothTables
    /\ results.kind = "report"
    /\ DOMAIN results.report # {}
    /\ columns(request.reference) \ columns(request.production) # {}
    /\ columns(request.production) \ columns(request.reference) # {}

\* C5: with a reference table that has rows and no production data (file absent, or
\* present without rows), detect_drift returns an empty report, summarised
\* as 0 analyzed, 0 drifted, 0 percent, LOW, and check_drift succeeds
C5_NoProductionData ==
    (/\ request.kind = "check_drift"
     /\ request.reference.kind = "table"
     /\ request.reference.rows
     /\ \/ request.production = Absent
        \/ request.production.kind = "table" /\ ~request.production.rows)
    => /\ results.kind = "report"
       /\ DOMAIN results.report = {}
       /\ response.kind = "ok"
       /\ response.body.status = "success"
       /\ response.body.features_analyzed = 0
       /\ response.body.features_drifted = 0
       /\ emitted[1].drift_percentage = 0
       /\ emitted[1].risk_level = "LOW"

\* the response of check_drift to an unclassified computation error
GenericFailure ==
    [kind |-> "error", status |-> 500, detail |-> "Drift check failed"]

\* C6: when the reference file is missing, detect_drift raises its
\* reference-not-found error and check_drift answers with a signal other
\* than the generic failure
C6_ReferenceMissingIsDistinct ==
    (request.kind = "check_drift" /\ request.reference = Absent)
    => /\ results.kind = "raised"
       /\ results.exception = "FileNotFoundError"
       /\ response # GenericFailure

\* number of events of emitted that satisfy Test
CountEvents(Test(_)) == Cardinality({ i \in 1..Len(emitted) : Test(emitted[i]) })

\* C10: one run of log_drift_to_insights emits one summary event with the
\* percentage and the risk level, and for each feature one feature_drift
\* event with its name, statistic, p-value and type if it drifted, none if
\* it did not
C10_OneEventPerDriftedFeature ==
    Reported =>
        /\ CountEvents(LAMBDA e : e.event_type = "drift_detection") = 1
        /\ emitted[1].event_type = "drift_detection"
        /\ {"drift_percentage", "risk_level"} \subseteq DOMAIN emitted[1]
        /\ CountEvents(LAMBDA e : e.event_type = "feature_drift")
             = response.body.features_drifted
        /\ \A i \in 2..Len(emitted) : emitted[i].event_type = "feature_drift"
        /\ \A f \in DOMAIN results.report :
             LET v == results.report[f]
                 mine == { i \in 2..Len(emitted) : emitted[i].feature_name = f }
             IN  IF v.drift_detected
                 THEN /\ Cardinality(mine) = 1
                      /\ \A i \in mine :
                           /\ emitted[i].p_value = v.p_value
                           /\ emitted[i].statistic = v.statistic
                           /\ emitted[i].type = v.type
                 ELSE mine = {}

\* a report where one feature drifted and another did not
C10_Witness ==
    /\ Reported
    /\ Len(emitted) = 2
    /\ \E f, g \in DOMAIN results.report :
         /\ results.report[f].drift_detected
         /\ ~results.report[g].drift_detected
         /\ emitted[2].feature_name = f

-----------------------------------------------------------------------------
(* Properties of the scoring service, checked under Spec *)

\* the probability the loaded model answers for the request of predict
Proba == model.predict_proba[InputData(request.features)]

\* C7: predict answers prediction 1 exactly when the model's probability is
\* above 0.5, and the band Low below 0.3, Medium from 0.3 and below 0.7,
\* High from 0.7; 0.2999, 0.3, 0.6999, 0.7 are Low, Medium, Medium, High
C7_PredictionAndBand ==
    /\ (request.kind = "predict" /\ response.kind = "ok") =>
         /\ response.body.prediction = (IF Proba > 50000 THEN 1 ELSE 0)
         /\ Proba < 30000 => response.body.risk_level = "Low"
         /\ Proba >= 30000 /\ Proba < 70000 => response.body.risk_level = "Medium"
         /\ Proba >= 70000 => response.body.risk_level = "High"
    /\ RiskBand(29990) = "Low"
    /\ RiskBand(30000) = "Medium"
    /\ RiskBand(69990) = "Medium"
    /\ RiskBand(70000) = "High"
    /\ Prediction(50000) = 0

\* predict on a probability of exactly 0.5
C7_Witness ==
    /\ request.kind = "predict"
    /\ response.kind = "ok"
    /\ Proba = 50000
    /\ response.body.prediction = 0
    /\ response.body.risk_level = "Medium"

\* C8: predict_batch on N vectors returns N results in order with count N,
\* the i-th being what predict returns for the i-th vector
C8_BatchEqualsSingle ==
    (request.kind = "predict_batch" /\ response.kind = "ok") =>
        LET features_list == request.features_list
            predictions == response.body.predictions
        IN  /\ response.body.count = Len(features_list)
            /\ Len(predictions) = Len(features_list)
            /\ \A i \in 1..Len(features_list) :
                 LET single == PredictBody(model.predict_proba[InputData(features_list[i])])
                 IN  /\ DOMAIN predictions[i] = DOMAIN single
                     /\ \A k \in DOMAIN single : predictions[i][k] = single[k]

\* C9: load_model runs at most once, at startup; afterwards the model
\* reference never changes, so a failed load leaves it unset; and a predict
\* or predict_batch call with no model answers 503 without invoking a model
C9_LoadOnceAndUnavailable ==
    /\ [](/\ loads <= 1
          /\ pc = "startup" => loads = 0 /\ model = NoModel
          /\ (request.kind \in {"predict", "predict_batch"} /\ model = NoModel)
               => /\ response.kind = "error"
                  /\ response.status = 503
                  /\ calls = 0)
    /\ [][pc = "serving" => model' = model /\ loads' = loads]_vars

\* a predict call answered 503 after a failed load
C9_Witness ==
    /\ loads = 1
    /\ model = NoModel
    /\ request.kind = "predict"
    /\ response.status = 503

=============================================================================
